---- MODULE Spec2Model ----
(***************************************************************************)
(* A model of gogo-framework/router (src/router.go): the registration API  *)
(* (routes, route groups, middlewares), the path sanitizer, the middleware *)
(* composer and the lazy setup done by the first ServeHTTP calls.          *)
(*                                                                         *)
(* Strings are sequences of one-character strings, so that prefixing,      *)
(* slash collapsing and suffixing are computed character by character.     *)
(* A handler is the sequence of its layers, outermost first; the last      *)
(* element is the base handler.                                            *)
(***************************************************************************)
EXTENDS Naturals, Sequences, FiniteSets, TLC

VARIABLES
    routes,          \* Router.routes: top-level routes, in registration order
    routeGroups,     \* Router.routeGroups
    middlewares,     \* Router.middlewares: the global middlewares
    config,          \* Router.config
    mux,             \* Router.mux: NilMux, or the multiplexer's registrations
    hasSetupRoutes,  \* Router.hasSetupRoutes
    mutex,           \* Router.mutex: 0 when free, else the request holding it
    pc,              \* position of each request inside ServeHTTP
    request,         \* per request: whether it arrived before setup was flagged
    flagRead,        \* per request: the value it read from hasSetupRoutes at
                     \* line 211, and the value the flag held at that moment
    response,        \* per request: its method and path, and the effects observed
    setupCount,      \* number of times SetupRoutes has been entered
    attached,        \* per group: the middlewares attached at group scope
    nOps,            \* number of registration/configuration calls made so far
    call             \* the last direct call of a pure function, with its result

vars == <<routes, routeGroups, middlewares, config, mux, hasSetupRoutes, mutex,
          pc, request, flagRead, response, setupCount, attached, nOps, call>>

requestVars == <<pc, request, flagRead, response, setupCount>>
registrationVars == <<routes, routeGroups, middlewares, attached>>

----------------------------------------------------------------------------
(* Bounds of the model *)

\* Longest raw pattern / prefix / path handed to the path functions directly.
MaxLen == 3
\* Longest middleware list handed to applyMiddlewares directly.
MaxChain == 3
\* Number of registration and configuration calls in one behaviour.
MaxOps == 3
\* Number of concurrent ServeHTTP calls.
NumRequests == 2

----------------------------------------------------------------------------
(* Strings *)

Slash == "/"
Alphabet == {"/", "a"}

StringsUpTo(n) == UNION {[1..k -> Alphabet] : k \in 0..n}

\* http.MethodGet, http.MethodPost
MethodGet == <<"G", "E", "T">>
MethodPost == <<"P", "O", "S", "T">>
Methods == {MethodGet, MethodPost}

\* http.MethodPut, ..., http.MethodTrace: the tokens of the other shortcuts
MethodPut == <<"P", "U", "T">>
MethodDelete == <<"D", "E", "L", "E", "T", "E">>
MethodPatch == <<"P", "A", "T", "C", "H">>
MethodOptions == <<"O", "P", "T", "I", "O", "N", "S">>
MethodHead == <<"H", "E", "A", "D">>
MethodConnect == <<"C", "O", "N", "N", "E", "C", "T">>
MethodTrace == <<"T", "R", "A", "C", "E">>

\* The exact-match marker appended at src/router.go:157
ExactMatchWildcard == <<"{", "$", "}">>

\* The run-time panic of path[0] on an empty string (index out of range).
IndexOutOfRange == <<"panic: index out of range">>

DefaultConfig ==
    [DisableAutoAddExactMatchWildcard |-> FALSE, DisableAutoAddTrailingSlash |-> FALSE]

Configs ==
    [DisableAutoAddExactMatchWildcard : BOOLEAN, DisableAutoAddTrailingSlash : BOOLEAN]

BothDisabled(cfg) ==
    cfg.DisableAutoAddTrailingSlash /\ cfg.DisableAutoAddExactMatchWildcard

\* strings.Contains(path, "//")
ContainsDoubleSlash(s) ==
    \E i \in 1..(Len(s) - 1) : s[i] = Slash /\ s[i + 1] = Slash

\* strings.Replace(path, "//", "/", -1): one left-to-right pass over
\* non-overlapping occurrences.
RECURSIVE ReplaceAll(_)
ReplaceAll(s) ==
    IF Len(s) < 2 THEN s
    ELSE IF s[1] = Slash /\ s[2] = Slash
         THEN <<Slash>> \o ReplaceAll(SubSeq(s, 3, Len(s)))
         ELSE <<s[1]>> \o ReplaceAll(Tail(s))

\* A plausible bug: one replacement pass instead of the loop.
CollapseSlashesOnce(s) == ReplaceAll(s)

\* for strings.Contains(path, "//") { path = strings.Replace(...) }
RECURSIVE CollapseSlashes(_)
CollapseSlashes(s) ==
    IF ContainsDoubleSlash(s) THEN CollapseSlashes(ReplaceAll(s)) ELSE s

\* A plausible bug: the leading slash is never added.
NoLeadingSlash(p) == p

\* if path[0] != '/' { path = "/" + path }   (p is not empty here)
EnsureLeadingSlash(p) ==
    IF p[1] # Slash THEN <<Slash>> \o p ELSE p

\* A plausible bug: the slash is appended without looking at the last character.
AlwaysTrailingSlash(cfg, p) ==
    IF ~cfg.DisableAutoAddTrailingSlash THEN p \o <<Slash>> ELSE p

\* if !DisableAutoAddTrailingSlash && path[len(path)-1] != '/' { path += "/" }
EnsureTrailingSlash(cfg, p) ==
    IF ~cfg.DisableAutoAddTrailingSlash /\ p[Len(p)] # Slash THEN p \o <<Slash>> ELSE p

\* if !DisableAutoAddExactMatchWildcard { path += "{$}" }
AddExactMatchWildcard(cfg, p) ==
    IF ~cfg.DisableAutoAddExactMatchWildcard THEN p \o ExactMatchWildcard ELSE p

\* Router.SanitizePath; the result is IndexOutOfRange when path[0] panics.
SanitizePath(cfg, path) ==
    IF BothDisabled(cfg) THEN path
    ELSE LET collapsed == CollapseSlashes(path) IN
         IF Len(collapsed) = 0 THEN IndexOutOfRange
         ELSE AddExactMatchWildcard(cfg,
                  EnsureTrailingSlash(cfg, EnsureLeadingSlash(collapsed)))

\* A plausible bug: the pattern is handed to SanitizePath without the "/"
\* that Sprintf puts in front of it.
GetPathForRouteRaw(cfg, route) ==
    route.Method \o <<" ">> \o SanitizePath(cfg, route.Pattern)

\* Router.GetPathForRoute: Sprintf("/%s", Pattern), then Sprintf("%s %s", ...)
GetPathForRoute(cfg, route) ==
    route.Method \o <<" ">> \o SanitizePath(cfg, <<Slash>> \o route.Pattern)

\* A plausible bug: prefix and pattern are joined without a separator.
JoinWithoutSeparator(cfg, route, routeGroup) ==
    route.Method \o <<" ">>
        \o SanitizePath(cfg, <<Slash>> \o routeGroup.Prefix \o route.Pattern)

\* Router.GetPathForRouteWithRouteGroup: Sprintf("/%s/%s", Prefix, Pattern)
GetPathForRouteWithRouteGroup(cfg, route, routeGroup) ==
    route.Method \o <<" ">>
        \o SanitizePath(cfg, <<Slash>> \o routeGroup.Prefix \o <<Slash>> \o route.Pattern)

----------------------------------------------------------------------------
(* Middlewares and handlers *)

\* Middlewares that do their side effect and then call next.
PassThrough == {"A", "B"}
\* A middleware that does its side effect and does not call next.
ShortCircuit == {"X"}
AllMiddlewares == PassThrough \cup ShortCircuit

\* The handler of the route that a builder registers in a group of its own,
\* made inside the builder; no other route has it.
NestedHandler == "h3"

Handlers == {"h1", "h2", NestedHandler}

\* middlewares[i](handler): the handler wrapped in one more layer.
Wrap(m, handler) == <<m>> \o handler

RECURSIVE ApplyAscending(_, _, _)
ApplyAscending(handler, mws, i) ==
    IF i > Len(mws) THEN handler
    ELSE ApplyAscending(Wrap(mws[i], handler), mws, i + 1)

\* A plausible bug: the loop runs from the first middleware to the last.
applyMiddlewaresForward(handler, mws) == ApplyAscending(handler, mws, 1)

RECURSIVE ApplyDescending(_, _, _)
ApplyDescending(handler, mws, i) ==
    IF i < 1 THEN handler
    ELSE ApplyDescending(Wrap(mws[i], handler), mws, i - 1)

\* applyMiddlewares: for i := len(middlewares)-1; i >= 0; i-- (1-based here)
applyMiddlewares(handler, mws) == ApplyDescending(handler, mws, Len(mws))

\* Calling a composed handler: the side effects it produces, in order.
RECURSIVE Invoke(_)
Invoke(handler) ==
    IF Len(handler) = 1 THEN <<handler[1]>>
    ELSE IF handler[1] \in ShortCircuit THEN <<handler[1]>>
         ELSE <<handler[1]>> \o Invoke(Tail(handler))

----------------------------------------------------------------------------
(* Routes, route groups and the registration API, on router values *)

\* &Route{Method, Pattern, HandlerFunc, Middlewares: nil}
NewRoute(method, pattern, handler) ==
    [Method |-> method, Pattern |-> pattern, HandlerFunc |-> handler,
     Middlewares |-> <<>>]

\* Route.Use
RouteUse(route, mws) == [route EXCEPT !.Middlewares = @ \o mws]

\* RouteGroup.Use
RouteGroupUse(rg, mws) == [rg EXCEPT !.Middlewares = @ \o mws]

\* The fields of a Router that the registration calls touch.
RouterValue(rs, gs, ms) == [routes |-> rs, routeGroups |-> gs, middlewares |-> ms]

\* &Router{}
EmptyRouter == RouterValue(<<>>, <<>>, <<>>)

\* A plausible bug: the new route is put in front of the earlier ones.
RegisterRouteInFront(r, method, pattern, handler) ==
    [r EXCEPT !.routes = <<NewRoute(method, pattern, handler)>> \o @]

\* Router.RegisterRoute
RegisterRoute(r, method, pattern, handler) ==
    [r EXCEPT !.routes = Append(@, NewRoute(method, pattern, handler))]

\* Router.GET, POST, PUT, DELETE, PATCH, OPTIONS, HEAD, CONNECT, TRACE
GET(r, pattern, handler) == RegisterRoute(r, MethodGet, pattern, handler)
POST(r, pattern, handler) == RegisterRoute(r, MethodPost, pattern, handler)
PUT(r, pattern, handler) == RegisterRoute(r, MethodPut, pattern, handler)
DELETE(r, pattern, handler) == RegisterRoute(r, MethodDelete, pattern, handler)
PATCH(r, pattern, handler) == RegisterRoute(r, MethodPatch, pattern, handler)
OPTIONS(r, pattern, handler) == RegisterRoute(r, MethodOptions, pattern, handler)
HEAD(r, pattern, handler) == RegisterRoute(r, MethodHead, pattern, handler)
CONNECT(r, pattern, handler) == RegisterRoute(r, MethodConnect, pattern, handler)
TRACE(r, pattern, handler) == RegisterRoute(r, MethodTrace, pattern, handler)

\* The method-named shortcut of a given name, called on r.
Shortcut(name, r, pattern, handler) ==
    CASE name = "GET" -> GET(r, pattern, handler)
      [] name = "POST" -> POST(r, pattern, handler)
      [] name = "PUT" -> PUT(r, pattern, handler)
      [] name = "DELETE" -> DELETE(r, pattern, handler)
      [] name = "PATCH" -> PATCH(r, pattern, handler)
      [] name = "OPTIONS" -> OPTIONS(r, pattern, handler)
      [] name = "HEAD" -> HEAD(r, pattern, handler)
      [] name = "CONNECT" -> CONNECT(r, pattern, handler)
      [] name = "TRACE" -> TRACE(r, pattern, handler)

\* Router.Use
RouterUse(r, mws) == [r EXCEPT !.middlewares = @ \o mws]

\* A plausible bug: the sub-router starts without the parent's middlewares.
SubRouterNotSeeded(r) == RouterValue(<<>>, <<>>, <<>>)

\* &Router{middlewares: make(..., len(r.middlewares))}; copy(...)
SubRouter(r) == RouterValue(<<>>, <<>>, r.middlewares)

\* The calls a group builder makes on the sub-router it is given.
UseStep(mws) == [op |-> "Use", mws |-> mws]
RouteStep(method, pattern, handler) ==
    [op |-> "Route", method |-> method, pattern |-> pattern, handler |-> handler]
GroupStep(prefix, builder) == [op |-> "Group", prefix |-> prefix, builder |-> builder]

RECURSIVE RunBuilder(_, _)
RECURSIVE Group(_, _, _)

\* A plausible bug: a Group call inside a builder registers its routes on the
\* sub-router of the outer group.
RunBuilderFlattening(r, builder) ==
    IF builder = <<>> THEN r
    ELSE LET step == Head(builder)
             next == IF step.op = "Use" THEN RouterUse(r, step.mws)
                     ELSE IF step.op = "Route"
                          THEN RegisterRoute(r, step.method, step.pattern, step.handler)
                          ELSE RunBuilder(r, step.builder)
         IN RunBuilder(next, Tail(builder))

\* group(tmpRouter): the builder's calls, applied in order to the sub-router.
RunBuilder(r, builder) ==
    IF builder = <<>> THEN r
    ELSE LET step == Head(builder)
             next == IF step.op = "Use" THEN RouterUse(r, step.mws)
                     ELSE IF step.op = "Route"
                          THEN RegisterRoute(r, step.method, step.pattern, step.handler)
                          ELSE Group(r, step.prefix, step.builder)
         IN RunBuilder(next, Tail(builder))

\* A plausible bug: the builder is run on the parent router itself.
GroupOnParent(r, prefix, builder) ==
    LET tmpRouter == RunBuilder(r, builder)
        rg == [Prefix |-> prefix, Routes |-> tmpRouter.routes,
               Middlewares |-> tmpRouter.middlewares]
    IN [tmpRouter EXCEPT !.routeGroups = Append(@, rg)]

\* Router.Group
Group(r, prefix, builder) ==
    LET tmpRouter == RunBuilder(SubRouter(r), builder)
        rg == [Prefix |-> prefix, Routes |-> tmpRouter.routes,
               Middlewares |-> tmpRouter.middlewares]
    IN [r EXCEPT !.routeGroups = Append(@, rg)]

----------------------------------------------------------------------------
(* The multiplexer (net/http.ServeMux), as the Router uses it *)

\* A multiplexer is known by who made it (the caller of SetMux, or the Router
\* itself at src/router.go:176) and by the registrations it holds.
NilMux == [isNil |-> TRUE, supplied |-> FALSE, entries |-> <<>>]
\* http.NewServeMux(), called by the Router
NewServeMux == [isNil |-> FALSE, supplied |-> FALSE, entries |-> <<>>]
\* http.NewServeMux(), called by the caller of SetMux
SuppliedMux == [isNil |-> FALSE, supplied |-> TRUE, entries |-> <<>>]

\* The response of the multiplexer when no pattern matches.
NotFound == <<"404">>

EndsWith(s, suffix) ==
    /\ Len(s) >= Len(suffix)
    /\ SubSeq(s, Len(s) - Len(suffix) + 1, Len(s)) = suffix

StartsWith(s, prefix) ==
    /\ Len(s) >= Len(prefix)
    /\ SubSeq(s, 1, Len(prefix)) = prefix

\* A plausible bug: the exact-match marker is ignored and the pattern matches
\* the whole subtree below it.
PathMatchesSubtree(patternPath, path) ==
    IF EndsWith(patternPath, ExactMatchWildcard)
    THEN StartsWith(path, SubSeq(patternPath, 1,
                                 Len(patternPath) - Len(ExactMatchWildcard)))
    ELSE IF EndsWith(patternPath, <<Slash>>)
         THEN StartsWith(path, patternPath)
         ELSE path = patternPath

\* Whether the path part of a pattern matches a request path: "...{$}" matches
\* that path only, ".../" matches the subtree, anything else matches itself.
PathMatches(patternPath, path) ==
    IF EndsWith(patternPath, ExactMatchWildcard)
    THEN path = SubSeq(patternPath, 1, Len(patternPath) - Len(ExactMatchWildcard))
    ELSE IF EndsWith(patternPath, <<Slash>>)
         THEN StartsWith(path, patternPath)
         ELSE path = patternPath

\* Whether a registered "METHOD path" pattern matches a request.
PatternMatches(pattern, method, path) ==
    /\ StartsWith(pattern, method \o <<" ">>)
    /\ PathMatches(SubSeq(pattern, Len(method) + 2, Len(pattern)), path)

\* mux.HandleFunc panics when the pattern conflicts with a registered one.
Conflicts(entries, pattern) ==
    \E k \in 1..Len(entries) : entries[k].pattern = pattern

\* mux.HandleFunc for each registration in order, stopping at the first panic.
RECURSIVE HandleFuncAll(_, _)
HandleFuncAll(entries, regs) ==
    IF regs = <<>> THEN [entries |-> entries, panicked |-> FALSE]
    ELSE IF Conflicts(entries, Head(regs).pattern)
         THEN [entries |-> entries, panicked |-> TRUE]
         ELSE HandleFuncAll(Append(entries, Head(regs)), Tail(regs))

\* mux.ServeHTTP: the effects of the most specific matching handler, or 404.
MuxServeHTTP(entries, method, path) ==
    LET matching == {k \in 1..Len(entries) :
                        PatternMatches(entries[k].pattern, method, path)}
    IN IF matching = {} THEN NotFound
       ELSE LET best == CHOOSE k \in matching :
                            \A l \in matching :
                                Len(entries[l].pattern) <= Len(entries[k].pattern)
            IN Invoke(entries[best].handler)

----------------------------------------------------------------------------
(* SetupRoutes *)

\* A plausible bug: the route's middlewares are put before the global ones.
combineRouteFirst(routeMiddlewares, globalMiddlewares) ==
    routeMiddlewares \o globalMiddlewares

\* combineMiddlewares (src/router.go:180): global first, then the route's.
combineMiddlewares(routeMiddlewares, globalMiddlewares) ==
    globalMiddlewares \o routeMiddlewares

\* The first loop of SetupRoutes: one registration per top-level route.
RouteRegistrations(cfg, rs, globalMiddlewares) ==
    [i \in 1..Len(rs) |->
        [pattern |-> GetPathForRoute(cfg, rs[i]),
         handler |-> applyMiddlewares(<<rs[i].HandlerFunc>>,
                         combineMiddlewares(rs[i].Middlewares, globalMiddlewares))]]

\* append(routeGroup.Middlewares, route.Middlewares...) at src/router.go:201,
\* when the array behind the group's list has room: the route's middlewares
\* are written into the slots behind the end of the list, over what an
\* earlier append has left there. The list itself keeps its length and its
\* elements. (Without room the append writes into a new array and leaves
\* nothing behind; the slots are then read by nobody.)
AppendBehind(slots, mws) ==
    mws \o SubSeq(slots, Len(mws) + 1, Len(slots))

\* The slice that append returns: the group's list and, behind it, the first
\* n slots.
AppendResult(rg, slots, n) == rg.Middlewares \o SubSeq(slots, 1, n)

\* The slots behind the group's list after the appends for routes j, j+1, ...
RECURSIVE SlotsAfterLoop(_, _, _)
SlotsAfterLoop(rg, j, slots) ==
    IF j > Len(rg.Routes) THEN slots
    ELSE SlotsAfterLoop(rg, j + 1, AppendBehind(slots, rg.Routes[j].Middlewares))

\* The inner loop from route j on: each turn appends behind the group's list
\* and composes the handler from a copy taken at once (combineMiddlewares).
RECURSIVE RouteGroupLoop(_, _, _, _, _)
RouteGroupLoop(cfg, rg, globalMiddlewares, j, slots) ==
    IF j > Len(rg.Routes) THEN <<>>
    ELSE LET route == rg.Routes[j]
             written == AppendBehind(slots, route.Middlewares)
             appended == AppendResult(rg, written, Len(route.Middlewares))
         IN <<[pattern |-> GetPathForRouteWithRouteGroup(cfg, route, rg),
               handler |-> applyMiddlewares(<<route.HandlerFunc>>,
                               combineMiddlewares(appended, globalMiddlewares))]>>
                \o RouteGroupLoop(cfg, rg, globalMiddlewares, j + 1, written)

\* A plausible bug: the handlers of a group are composed when the loop is
\* over, from slices that all look at the slots as the last append left them.
RouteGroupRegistrationsLate(cfg, rg, globalMiddlewares) ==
    LET slots == SlotsAfterLoop(rg, 1, <<>>) IN
    [j \in 1..Len(rg.Routes) |->
        [pattern |-> GetPathForRouteWithRouteGroup(cfg, rg.Routes[j], rg),
         handler |-> applyMiddlewares(<<rg.Routes[j].HandlerFunc>>,
                         combineMiddlewares(
                             AppendResult(rg, slots, Len(rg.Routes[j].Middlewares)),
                             globalMiddlewares))]]

\* The inner loop of the second loop: one registration per route of a group.
RouteGroupRegistrations(cfg, rg, globalMiddlewares) ==
    RouteGroupLoop(cfg, rg, globalMiddlewares, 1, <<>>)

RECURSIVE AllGroupRegistrations(_, _, _)
AllGroupRegistrations(cfg, gs, globalMiddlewares) ==
    IF gs = <<>> THEN <<>>
    ELSE RouteGroupRegistrations(cfg, Head(gs), globalMiddlewares)
             \o AllGroupRegistrations(cfg, Tail(gs), globalMiddlewares)

\* A plausible bug: the routes of the groups are registered before the
\* top-level routes.
RegistrationsGroupsFirst(cfg, rs, gs, globalMiddlewares) ==
    AllGroupRegistrations(cfg, gs, globalMiddlewares)
        \o RouteRegistrations(cfg, rs, globalMiddlewares)

\* Everything SetupRoutes hands to mux.HandleFunc, in order.
Registrations(cfg, rs, gs, globalMiddlewares) ==
    RouteRegistrations(cfg, rs, globalMiddlewares)
        \o AllGroupRegistrations(cfg, gs, globalMiddlewares)

\* A plausible bug: SetupRoutes makes a multiplexer of its own every time.
SetupRoutesOnNewMux(m, cfg, rs, gs, globalMiddlewares) ==
    LET done == HandleFuncAll(NewServeMux.entries,
                              Registrations(cfg, rs, gs, globalMiddlewares))
    IN [mux |-> [NewServeMux EXCEPT !.entries = done.entries],
        panicked |-> done.panicked]

\* Router.SetupRoutes: the multiplexer afterwards, and whether HandleFunc panicked.
SetupRoutes(m, cfg, rs, gs, globalMiddlewares) ==
    LET target == IF m.isNil THEN NewServeMux ELSE m
        done == HandleFuncAll(target.entries,
                              Registrations(cfg, rs, gs, globalMiddlewares))
    IN [mux |-> [target EXCEPT !.entries = done.entries], panicked |-> done.panicked]

----------------------------------------------------------------------------
(* Inputs of the registration calls and of the requests *)

Requests == 1..NumRequests

\* Arguments of Use, Route.Use and RouteGroup.Use (variadic).
MiddlewareArgs == {<<"A">>, <<"B">>}

\* Arguments of RegisterRoute / GET / POST on the Router. Under the default
\* configuration the first two are registered under the same pattern.
RouteArgs ==
    {[method |-> MethodGet, pattern |-> <<"a">>, handler |-> "h1"],
     [method |-> MethodGet, pattern |-> <<"/", "a">>, handler |-> "h2"],
     [method |-> MethodPost, pattern |-> <<"a">>, handler |-> "h2"]}

\* The method-named shortcuts of the Router, and the patterns they are given.
ShortcutNames ==
    {"GET", "POST", "PUT", "DELETE", "PATCH", "OPTIONS", "HEAD", "CONNECT", "TRACE"}
ShortcutPatterns == {<<"a">>}
ShortcutHandlers == {"h1"}

Prefixes == {<<"a">>}

\* Builder callbacks handed to Group.
Builders ==
    {<<>>,
     <<RouteStep(MethodGet, <<"a">>, "h1")>>,
     <<UseStep(<<"B">>), RouteStep(MethodGet, <<"a">>, "h1")>>,
     <<RouteStep(MethodGet, <<"a">>, "h1"), UseStep(<<"A">>)>>,
     <<RouteStep(MethodGet, <<"a">>, "h1"), RouteStep(MethodPost, <<"/", "a">>, "h2")>>,
     <<GroupStep(<<"a">>, <<RouteStep(MethodPost, <<"a">>, NestedHandler)>>),
       RouteStep(MethodPost, <<"a">>, "h1")>>}

\* What a request asks for.
RequestArgs ==
    {[method |-> MethodGet, path |-> <<"/", "a", "/">>],
     [method |-> MethodPost, path |-> <<"/", "a", "/", "a", "/">>]}

\* The middlewares a builder attaches with Use on the sub-router it is given.
RECURSIVE BuilderUses(_)
BuilderUses(builder) ==
    IF builder = <<>> THEN <<>>
    ELSE (IF Head(builder).op = "Use" THEN Head(builder).mws ELSE <<>>)
             \o BuilderUses(Tail(builder))

NoCall == [fn |-> "none"]
NoResponse == [served |-> FALSE]

----------------------------------------------------------------------------
(* The initial state: NewRouter(), no request yet *)

Init ==
    /\ routes = <<>>
    /\ routeGroups = <<>>
    /\ middlewares = <<>>
    /\ config = DefaultConfig
    /\ mux = NilMux
    /\ hasSetupRoutes = FALSE
    /\ mutex = 0
    /\ pc = [i \in Requests |-> "idle"]
    /\ request = [i \in Requests |-> [early |-> FALSE]]
    /\ flagRead = [i \in Requests |-> [seen |-> FALSE, written |-> FALSE]]
    /\ response = [i \in Requests |-> NoResponse]
    /\ setupCount = 0
    /\ attached = <<>>
    /\ nOps = 0
    /\ call = NoCall

----------------------------------------------------------------------------
(* Registration and configuration calls *)

ThisRouter == RouterValue(routes, routeGroups, middlewares)

\* No request is inside ServeHTTP. Registration calls are made by the one
\* goroutine that owns the Router, outside of any running request: the lists
\* they write carry no lock.
Quiescent == \A i \in Requests : pc[i] \in {"idle", "done"}

\* One more registration or configuration call; the serving state is untouched.
OneOp ==
    /\ nOps < MaxOps
    /\ Quiescent
    /\ nOps' = nOps + 1
    /\ UNCHANGED <<hasSetupRoutes, mutex, requestVars, call>>

\* r.Use(mws...)
UseCall(mws) ==
    /\ OneOp
    /\ middlewares' = RouterUse(ThisRouter, mws).middlewares
    /\ UNCHANGED <<routes, routeGroups, attached, config, mux>>

\* r.RegisterRoute(method, pattern, handler) and the method-named shortcuts
RegisterRouteCall(method, pattern, handler) ==
    /\ OneOp
    /\ routes' = RegisterRoute(ThisRouter, method, pattern, handler).routes
    /\ UNCHANGED <<routeGroups, middlewares, attached, config, mux>>

\* r.GET(pattern, handler), ..., r.TRACE(pattern, handler): the call, and
\* the *Route it returns, held as the position of that route in r.routes.
ShortcutCall(name, pattern, handler) ==
    /\ nOps < MaxOps
    /\ Quiescent
    /\ nOps' = nOps + 1
    /\ LET r == Shortcut(name, ThisRouter, pattern, handler) IN
          /\ routes' = r.routes
          /\ call' = [fn |-> name, pattern |-> pattern, handler |-> handler,
                      out |-> Len(r.routes)]
    /\ UNCHANGED <<routeGroups, middlewares, attached, config, mux, hasSetupRoutes,
                   mutex, requestVars>>

\* r.Group(prefix, builder)
GroupCall(prefix, builder) ==
    /\ OneOp
    /\ routeGroups' = Group(ThisRouter, prefix, builder).routeGroups
    /\ attached' = Append(attached, BuilderUses(builder))
    /\ UNCHANGED <<routes, middlewares, config, mux>>

\* A plausible bug: the routes share one middleware list.
RoutesAfterUseShared(rs, i, mws) ==
    [k \in 1..Len(rs) |-> RouteUse(rs[k], mws)]

\* Use on the i-th route of a list of routes, through the *Route it holds.
RoutesAfterUse(rs, i, mws) ==
    [rs EXCEPT ![i] = RouteUse(@, mws)]

\* route.Use(mws...) on a top-level route
RouteUseCall(i, mws) ==
    /\ OneOp
    /\ i \in 1..Len(routes)
    /\ routes' = RoutesAfterUse(routes, i, mws)
    /\ UNCHANGED <<routeGroups, middlewares, attached, config, mux>>

\* route.Use(mws...) on a route registered inside a group
GroupRouteUseCall(g, j, mws) ==
    /\ OneOp
    /\ g \in 1..Len(routeGroups)
    /\ j \in 1..Len(routeGroups[g].Routes)
    /\ routeGroups' = [routeGroups EXCEPT ![g].Routes = RoutesAfterUse(@, j, mws)]
    /\ UNCHANGED <<routes, middlewares, attached, config, mux>>

\* routeGroup.Use(mws...)
RouteGroupUseCall(g, mws) ==
    /\ OneOp
    /\ g \in 1..Len(routeGroups)
    /\ routeGroups' = [routeGroups EXCEPT ![g] = RouteGroupUse(@, mws)]
    /\ attached' = [attached EXCEPT ![g] = @ \o mws]
    /\ UNCHANGED <<routes, middlewares, config, mux>>

\* r.SetConfig(cfg)
SetConfig(cfg) ==
    /\ OneOp
    /\ config' = cfg
    /\ UNCHANGED <<registrationVars, mux>>

\* r.SetMux(http.NewServeMux())
SetMux ==
    /\ OneOp
    /\ mux' = SuppliedMux
    /\ UNCHANGED <<registrationVars, config>>

----------------------------------------------------------------------------
(* ServeHTTP, one step per statement *)

Goto(i, label) == pc' = [pc EXCEPT ![i] = label]

\* A request enters ServeHTTP. It is concurrent with the write of the flag
\* exactly when it enters before the flag is set.
Arrive(i) ==
    /\ pc[i] = "idle"
    /\ Goto(i, "check")
    /\ request' = [request EXCEPT ![i] = [early |-> ~hasSetupRoutes]]
    /\ UNCHANGED <<registrationVars, config, mux, hasSetupRoutes, mutex, flagRead,
                   response, setupCount, nOps, call>>

\* A plausible bug: the flag is never seen set, every request goes for the lock.
ReadFlagNeverSet(i) ==
    /\ pc[i] = "check"
    /\ flagRead' = [flagRead EXCEPT ![i] = [seen |-> FALSE, written |-> hasSetupRoutes]]
    /\ Goto(i, "lock")
    /\ UNCHANGED <<registrationVars, config, mux, hasSetupRoutes, mutex, request,
                   response, setupCount, nOps, call>>

\* if !r.hasSetupRoutes : an unsynchronised read. A request that entered before
\* the flag was written may still read the old value.
ReadFlag(i) ==
    /\ pc[i] = "check"
    /\ \E seen \in {hasSetupRoutes} \cup (IF request[i].early THEN {FALSE} ELSE {}) :
          /\ flagRead' = [flagRead EXCEPT ![i] =
                              [seen |-> seen, written |-> hasSetupRoutes]]
          /\ Goto(i, IF seen THEN "dispatch" ELSE "lock")
    /\ UNCHANGED <<registrationVars, config, mux, hasSetupRoutes, mutex, request,
                   response, setupCount, nOps, call>>

\* r.mutex.Lock()
Lock(i) ==
    /\ pc[i] = "lock"
    /\ mutex = 0
    /\ mutex' = i
    /\ Goto(i, "setup")
    /\ UNCHANGED <<registrationVars, config, mux, hasSetupRoutes, request, flagRead,
                   response, setupCount, nOps, call>>

\* r.SetupRoutes(); a panic of HandleFunc leaves ServeHTTP with the mutex held.
CallSetupRoutes(i) ==
    /\ pc[i] = "setup"
    /\ LET done == SetupRoutes(mux, config, routes, routeGroups, middlewares) IN
          /\ mux' = done.mux
          /\ Goto(i, IF done.panicked THEN "panicked" ELSE "setflag")
    /\ setupCount' = setupCount + 1
    /\ UNCHANGED <<registrationVars, config, hasSetupRoutes, mutex, request, flagRead,
                   response, nOps, call>>

\* r.hasSetupRoutes = true
SetFlag(i) ==
    /\ pc[i] = "setflag"
    /\ hasSetupRoutes' = TRUE
    /\ Goto(i, "unlock")
    /\ UNCHANGED <<registrationVars, config, mux, mutex, request, flagRead,
                   response, setupCount, nOps, call>>

\* r.mutex.Unlock()
Unlock(i) ==
    /\ pc[i] = "unlock"
    /\ mutex' = 0
    /\ Goto(i, "dispatch")
    /\ UNCHANGED <<registrationVars, config, mux, hasSetupRoutes, request, flagRead,
                   response, setupCount, nOps, call>>

\* The values the read of r.mux at line 217 may return. A request that entered
\* before the flag was written and then read it set has skipped the lock:
\* nothing orders its read of r.mux after the write at line 176, so it may
\* still return the nil that the field held before. A multiplexer given to
\* SetMux was stored before serving began. The registrations are read under
\* the multiplexer's own lock and are always the current ones.
MuxReads(i) ==
    {mux} \cup (IF request[i].early /\ flagRead[i].seen /\ ~mux.supplied
                THEN {NilMux} ELSE {})

\* r.mux.ServeHTTP(w, req). The method and path of the request are read only
\* here, so they are drawn here. On a nil multiplexer the call panics.
Dispatch(i, req) ==
    /\ pc[i] = "dispatch"
    /\ \E m \in MuxReads(i) :
          IF m.isNil
          THEN /\ Goto(i, "nilmux")
               /\ UNCHANGED response
          ELSE /\ Goto(i, "done")
               /\ response' = [response EXCEPT ![i] =
                      [served |-> TRUE, method |-> req.method, path |-> req.path,
                       effects |-> MuxServeHTTP(m.entries, req.method, req.path)]]
    /\ UNCHANGED <<registrationVars, config, mux, hasSetupRoutes, mutex, request,
                   flagRead, setupCount, nOps, call>>

\* The statements of ServeHTTP that a request inside it may execute next.
ServeHTTPStep(i) ==
    \/ ReadFlag(i)
    \/ Lock(i)
    \/ CallSetupRoutes(i)
    \/ SetFlag(i)
    \/ Unlock(i)
    \/ \E req \in RequestArgs : Dispatch(i, req)

ServeHTTP(i) == Arrive(i) \/ ServeHTTPStep(i)

\* Any registration or configuration call.
Registration ==
    \/ \E mws \in MiddlewareArgs : UseCall(mws)
    \/ \E a \in RouteArgs : RegisterRouteCall(a.method, a.pattern, a.handler)
    \/ \E prefix \in Prefixes, builder \in Builders : GroupCall(prefix, builder)
    \/ \E i \in 1..MaxOps, mws \in MiddlewareArgs : RouteUseCall(i, mws)
    \/ \E g \in 1..MaxOps, j \in 1..MaxOps, mws \in MiddlewareArgs :
          GroupRouteUseCall(g, j, mws)
    \/ \E g \in 1..MaxOps, mws \in MiddlewareArgs : RouteGroupUseCall(g, mws)
    \/ \E cfg \in Configs : SetConfig(cfg)
    \/ SetMux

\* Registration calls, and requests served concurrently.
Next ==
    \/ Registration
    \/ \E i \in Requests : ServeHTTP(i)

Spec == Init /\ [][Next]_vars

\* Registration calls alone: the program before it starts serving.
SpecReg == Init /\ [][Registration]_vars

\* Route registration alone, through RegisterRoute and through every
\* method-named shortcut.
NextRoutes ==
    \/ \E a \in RouteArgs : RegisterRouteCall(a.method, a.pattern, a.handler)
    \/ \E name \in ShortcutNames, pattern \in ShortcutPatterns,
          handler \in ShortcutHandlers :
          ShortcutCall(name, pattern, handler)

SpecRoutes == Init /\ [][NextRoutes]_vars

\* Request i is the next one of a sequential run: the earlier ones have
\* returned and the later ones have not arrived.
NextInLine(i) ==
    /\ \A j \in Requests : j < i => pc[j] \in {"done", "panicked", "nilmux"}
    /\ \A j \in Requests : j > i => pc[j] = "idle"

\* Request i enters ServeHTTP when it is its turn.
ArriveInLine(i) == NextInLine(i) /\ Arrive(i)

\* Registration calls, and requests served one after the other.
NextSeq ==
    \/ Registration
    \/ \E i \in Requests : ArriveInLine(i) \/ ServeHTTPStep(i)

SpecSeq == Init /\ [][NextSeq]_vars

\* The request that is served first.
FirstRequest == CHOOSE i \in Requests : \A j \in Requests : i <= j

\* Registration calls, and the first request alone: the run in which the lazy
\* setup happens, with the registration calls made before and after it.
NextFirst ==
    \/ Registration
    \/ ArriveInLine(FirstRequest)
    \/ ServeHTTPStep(FirstRequest)

SpecFirst == Init /\ [][NextFirst]_vars

\* A request that is served after the first one has returned.
LaterRequest == FirstRequest + 1

\* Registration calls, the first request and one later request: the run in
\* which a request finds the setup done, with registration calls made before,
\* between and after the two.
NextLater ==
    \/ Registration
    \/ \E i \in {FirstRequest, LaterRequest} : ArriveInLine(i) \/ ServeHTTPStep(i)

SpecLater == Init /\ [][NextLater]_vars

----------------------------------------------------------------------------
(* Direct calls of the path functions, on a Router whose configuration the  *)
(* caller may have set                                                      *)

\* A direct call leaves the Router untouched; each behaviour makes one.
PathCallFrame ==
    UNCHANGED <<registrationVars, config, mux, hasSetupRoutes, mutex, requestVars, nOps>>

\* r.SanitizePath(path)
SanitizePathCall(path) ==
    /\ call = NoCall
    /\ call' = [fn |-> "SanitizePath", cfg |-> config, path |-> path,
                out |-> SanitizePath(config, path)]
    /\ PathCallFrame

\* r.GetPathForRoute(&Route{Method: method, Pattern: pattern})
GetPathForRouteCall(method, pattern) ==
    /\ call = NoCall
    /\ call' = [fn |-> "GetPathForRoute", cfg |-> config, method |-> method,
                pattern |-> pattern,
                out |-> GetPathForRoute(config, NewRoute(method, pattern, "h1"))]
    /\ PathCallFrame

\* r.GetPathForRouteWithRouteGroup(&Route{...}, &RouteGroup{Prefix: prefix})
GetPathForRouteWithRouteGroupCall(method, prefix, pattern) ==
    /\ call = NoCall
    /\ call' = [fn |-> "GetPathForRouteWithRouteGroup", cfg |-> config,
                method |-> method, prefix |-> prefix, pattern |-> pattern,
                out |-> GetPathForRouteWithRouteGroup(config,
                            NewRoute(method, pattern, "h1"),
                            [Prefix |-> prefix, Middlewares |-> <<>>, Routes |-> <<>>])]
    /\ PathCallFrame

NextPath ==
    \/ \E cfg \in Configs : SetConfig(cfg)
    \/ \E path \in StringsUpTo(MaxLen) : SanitizePathCall(path)
    \/ \E method \in Methods, pattern \in StringsUpTo(MaxLen) :
          GetPathForRouteCall(method, pattern)
    \/ \E method \in Methods, prefix \in StringsUpTo(MaxLen),
          pattern \in StringsUpTo(MaxLen) :
          GetPathForRouteWithRouteGroupCall(method, prefix, pattern)

SpecPath == Init /\ [][NextPath]_vars

----------------------------------------------------------------------------
(* Direct calls of applyMiddlewares, and calls of the handler it returns *)

MiddlewareLists == UNION {[1..k -> AllMiddlewares] : k \in 0..MaxChain}

\* applyMiddlewares(handler, mws...)
ApplyMiddlewaresCall(handler, mws) ==
    /\ call = NoCall
    /\ call' = [fn |-> "applyMiddlewares", handler |-> handler, mws |-> mws,
                out |-> applyMiddlewares(<<handler>>, mws)]
    /\ UNCHANGED <<registrationVars, config, mux, hasSetupRoutes, mutex, requestVars,
                   nOps>>

\* Calling the handler that the last applyMiddlewares returned.
ComposedHandlerCall ==
    /\ call.fn = "applyMiddlewares"
    /\ call' = [fn |-> "handler", handler |-> call.handler, mws |-> call.mws,
                composed |-> call.out, effects |-> Invoke(call.out)]
    /\ UNCHANGED <<registrationVars, config, mux, hasSetupRoutes, mutex, requestVars,
                   nOps>>

NextCompose ==
    \/ \E handler \in Handlers, mws \in MiddlewareLists :
          ApplyMiddlewaresCall(handler, mws)
    \/ ComposedHandlerCall

SpecCompose == Init /\ [][NextCompose]_vars

----------------------------------------------------------------------------
(* Fairness: the scheduler lets every request that can take a step take it *)

FairSpec == Spec /\ \A i \in Requests : WF_vars(ServeHTTP(i))

----------------------------------------------------------------------------
(* Properties of the path functions, checked under SpecPath *)

\* The argument in which the caller wrote the raw pattern(s) of the last call.
RawInputs ==
    IF call.fn = "SanitizePath" THEN {call.path}
    ELSE IF call.fn = "GetPathForRoute" THEN {call.pattern}
    ELSE IF call.fn = "GetPathForRouteWithRouteGroup" THEN {call.prefix, call.pattern}
    ELSE {}

PathFunctions == {"SanitizePath", "GetPathForRoute", "GetPathForRouteWithRouteGroup"}

\* C7 (as claimed): with both flags disabled, the string built for a top-level
\* route is the method, one space and the raw pattern, character for character.
C7_RawPatternUnchanged ==
    (call.fn = "GetPathForRoute" /\ BothDisabled(call.cfg))
        => call.out = call.method \o <<" ">> \o call.pattern

\* C8 (as claimed): whatever the configuration, a raw pattern containing "//"
\* yields a path without "//".
C8_NoDoubleSlashAnyConfig ==
    (call.fn \in PathFunctions /\ \E p \in RawInputs : ContainsDoubleSlash(p))
        => ~ContainsDoubleSlash(call.out)

\* C8 (amended): unless both flags are disabled, a raw pattern containing "//"
\* yields a path without "//".
C8_NoDoubleSlashWhenSanitizing ==
    (/\ call.fn \in PathFunctions
     /\ ~BothDisabled(call.cfg)
     /\ \E p \in RawInputs : ContainsDoubleSlash(p))
        => ~ContainsDoubleSlash(call.out)

\* C8 witness: three slashes, which one replacement pass does not collapse,
\* were sanitized to a single one.
C8_Witness ==
    /\ call.fn = "SanitizePath"
    /\ ~BothDisabled(call.cfg)
    /\ call.path = <<"/", "/", "/">>
    /\ ~ContainsDoubleSlash(call.out)

SlashMarker == <<Slash>> \o ExactMatchWildcard

\* C9: under the default configuration every generated path ends with "/{$}",
\* with exactly one slash before the marker, whatever the pattern and prefix.
C9_DefaultEndsWithSlashMarker ==
    (/\ call.fn \in PathFunctions
     /\ call.cfg = DefaultConfig
     /\ call.fn = "SanitizePath" => call.path # <<>>)
        => /\ EndsWith(call.out, SlashMarker)
           /\ ~EndsWith(call.out, <<Slash>> \o SlashMarker)

\* C9 witness: a group route whose pattern already ends with a slash got one
\* slash and the marker.
C9_Witness ==
    /\ call.fn = "GetPathForRouteWithRouteGroup"
    /\ call.cfg = DefaultConfig
    /\ call.prefix = <<"a">>
    /\ call.pattern = <<"a", "/">>
    /\ call.out = call.method \o <<" ", "/", "a", "/", "a", "/", "{", "$", "}">>

----------------------------------------------------------------------------
(* Properties of applyMiddlewares, checked under SpecCompose *)

\* m0(m1(...(mn-1(H))...))
RECURSIVE Nested(_, _)
Nested(mws, handler) ==
    IF mws = <<>> THEN handler ELSE Wrap(Head(mws), Nested(Tail(mws), handler))

IsPassThrough(mws) == \A k \in 1..Len(mws) : mws[k] \in PassThrough

\* C5: applyMiddlewares(H, m0..mn-1) is m0(m1(...(mn-1(H)))); with no
\* middleware it is H; calling it runs pass-through middlewares in the order
\* m0, ..., mn-1 and then H.
C5_ComposedOutermostFirst ==
    /\ call.fn = "applyMiddlewares" =>
          /\ call.out = Nested(call.mws, <<call.handler>>)
          /\ call.mws = <<>> => call.out = <<call.handler>>
    /\ (call.fn = "handler" /\ IsPassThrough(call.mws)) =>
          call.effects = call.mws \o <<call.handler>>

\* C5 witness: a handler composed from three pass-through middlewares was
\* called and ran A, B, A, then the handler.
C5_Witness ==
    /\ call.fn = "handler"
    /\ call.mws = <<"A", "B", "A">>
    /\ call.effects = <<"A", "B", "A", call.handler>>

----------------------------------------------------------------------------
(* Properties of the lazy setup under concurrent requests, checked under Spec *)

\* The patterns SetupRoutes would register are pairwise different.
DistinctPatterns ==
    LET regs == Registrations(config, routes, routeGroups, middlewares) IN
    \A k, l \in 1..Len(regs) : k # l => regs[k].pattern # regs[l].pattern

\* Every read of the flag so far has returned the value the flag held.
NoStaleRead == \A i \in Requests : flagRead[i].seen = flagRead[i].written

\* C1 (as claimed): under every interleaving of first calls of ServeHTTP,
\* SetupRoutes is executed at most once (even when no read of the flag is stale).
C1_SetupRunsOnce == NoStaleRead => setupCount <= 1

\* C2 (as claimed): with pairwise different patterns registered, no request
\* aborts inside the setup section, so that each one can reach the multiplexer.
C2_NoRequestAborts ==
    (DistinctPatterns /\ NoStaleRead) => \A i \in Requests : pc[i] # "panicked"

----------------------------------------------------------------------------
(* Properties of registration and setup: C3 is checked under SpecSeq, C4,   *)
(* which is about the setup done by the first request, under SpecFirst, and *)
(* C6, which is about registration calls alone, under SpecReg               *)

\* Some request has just returned from SetupRoutes without a panic; the
\* registration lists are those SetupRoutes has read.
SetupJustDone == \E i \in Requests : pc[i] = "setflag"

NumRegistrations == Len(Registrations(config, routes, routeGroups, middlewares))

\* The entries of the multiplexer that the last run of SetupRoutes has added.
LastRegistered ==
    SubSeq(mux.entries, Len(mux.entries) - NumRegistrations + 1, Len(mux.entries))

\* Number of routes in the groups before group g.
RECURSIVE RoutesBefore(_)
RoutesBefore(g) ==
    IF g <= 1 THEN 0 ELSE RoutesBefore(g - 1) + Len(routeGroups[g - 1].Routes)

\* The entry registered for the j-th route of group g.
GroupEntry(g, j) == LastRegistered[Len(routes) + RoutesBefore(g) + j]

\* C3 (as claimed): the handler registered for a route of a group is composed
\* from the global middlewares, then the middlewares attached at group scope,
\* then the route's own, then the handler, each attached middleware once.
C3_GroupRouteChain ==
    SetupJustDone =>
        \A g \in 1..Len(routeGroups) : \A j \in 1..Len(routeGroups[g].Routes) :
            LET route == routeGroups[g].Routes[j]
                chain == middlewares \o attached[g] \o route.Middlewares
            IN /\ GroupEntry(g, j).handler = Nested(chain, <<route.HandlerFunc>>)
               /\ Invoke(GroupEntry(g, j).handler) = chain \o <<route.HandlerFunc>>

\* C4: the handler registered for a top-level route is composed from the
\* global middlewares present at setup, then the route's own, then the handler,
\* and calling it runs them in that order.
C4_TopLevelRouteChain ==
    SetupJustDone =>
        \A k \in 1..Len(routes) :
            LET chain == middlewares \o routes[k].Middlewares
            IN /\ LastRegistered[k].handler = Nested(chain, <<routes[k].HandlerFunc>>)
               /\ Invoke(LastRegistered[k].handler) = chain \o <<routes[k].HandlerFunc>>

\* C4 witness: setup has registered a top-level route carrying its own
\* middleware B under the global middleware A.
C4_Witness ==
    /\ SetupJustDone
    /\ middlewares = <<"A">>
    /\ Len(routes) = 1
    /\ routes[1].Middlewares = <<"B">>
    /\ mux.entries[1].handler = <<"A", "B", routes[1].HandlerFunc>>

\* C6: Route.Use and RouteGroup.Use append to the list of the entity they are
\* called on, in call order, and change no other route's, no other group's and
\* not the Router's list; the chain of every route outside stays what it was.
C6_UseChangesOwnListOnly ==
    [][/\ \A i \in 1..Len(routes), mws \in MiddlewareArgs :
            RouteUseCall(i, mws) =>
               /\ routes'[i].Middlewares = routes[i].Middlewares \o mws
               /\ Len(routes') = Len(routes)
               /\ \A k \in 1..Len(routes) : k # i => routes'[k] = routes[k]
               /\ routeGroups' = routeGroups
               /\ middlewares' = middlewares
               /\ \A k \in 1..Len(routes) : k # i =>
                      RouteRegistrations(config', routes', middlewares')[k]
                          = RouteRegistrations(config, routes, middlewares)[k]
       /\ \A g \in 1..Len(routeGroups), mws \in MiddlewareArgs :
            \A j \in 1..Len(routeGroups[g].Routes) :
              GroupRouteUseCall(g, j, mws) =>
                 /\ routeGroups'[g].Routes[j].Middlewares
                        = routeGroups[g].Routes[j].Middlewares \o mws
                 /\ Len(routeGroups') = Len(routeGroups)
                 /\ Len(routeGroups'[g].Routes) = Len(routeGroups[g].Routes)
                 /\ \A l \in 1..Len(routeGroups[g].Routes) : l # j =>
                        routeGroups'[g].Routes[l] = routeGroups[g].Routes[l]
                 /\ routeGroups'[g].Middlewares = routeGroups[g].Middlewares
                 /\ \A h \in 1..Len(routeGroups) : h # g =>
                        routeGroups'[h] = routeGroups[h]
                 /\ routes' = routes
                 /\ middlewares' = middlewares
       /\ \A g \in 1..Len(routeGroups), mws \in MiddlewareArgs :
            RouteGroupUseCall(g, mws) =>
               /\ routeGroups'[g].Middlewares = routeGroups[g].Middlewares \o mws
               /\ routeGroups'[g].Routes = routeGroups[g].Routes
               /\ Len(routeGroups') = Len(routeGroups)
               /\ \A h \in 1..Len(routeGroups) : h # g =>
                      routeGroups'[h] = routeGroups[h]
               /\ routes' = routes
               /\ middlewares' = middlewares
               /\ RouteRegistrations(config', routes', middlewares')
                      = RouteRegistrations(config, routes, middlewares)
      ]_vars

\* C6 witness: of two top-level routes under no global middleware, the second
\* has got a middleware through its Use and the first has none.
C6_Witness ==
    /\ Len(routes) = 2
    /\ routes[1].Middlewares = <<>>
    /\ routes[2].Middlewares = <<"B">>
    /\ middlewares = <<>>
    /\ routeGroups = <<>>

----------------------------------------------------------------------------
(* The path of a route in a group, checked under SpecPath *)

\* The names a prefix or a pattern may carry: not empty, no slash inside.
Names == {s \in StringsUpTo(MaxLen) : s # <<>> /\ \A k \in 1..Len(s) : s[k] # Slash}

\* The four ways of writing a name x: "x", "/x", "x/", "/x/".
SlashForms(x) == {x, <<Slash>> \o x, x \o <<Slash>>, <<Slash>> \o x \o <<Slash>>}

\* C11: under the default configuration, a prefix x and a pattern y, each
\* written with or without a leading and a trailing slash, are registered for
\* method M as "M /x/y/{$}" in all sixteen combinations.
C11_GroupPathJoinsWithOneSlash ==
    (call.fn = "GetPathForRouteWithRouteGroup" /\ call.cfg = DefaultConfig) =>
        \A x, y \in Names :
            (call.prefix \in SlashForms(x) /\ call.pattern \in SlashForms(y)) =>
                call.out = call.method \o <<" ", Slash>> \o x \o <<Slash>> \o y
                               \o <<Slash>> \o ExactMatchWildcard

\* C11 witness: prefix "/a/" and pattern "/a/", written with every slash, were
\* registered as "GET /a/a/{$}".
C11_Witness ==
    /\ call.fn = "GetPathForRouteWithRouteGroup"
    /\ call.cfg = DefaultConfig
    /\ call.prefix = <<"/", "a", "/">>
    /\ call.pattern = <<"/", "a", "/">>
    /\ call.out = MethodGet \o <<" ", "/", "a", "/", "a", "/", "{", "$", "}">>

----------------------------------------------------------------------------
(* Dispatch of a request to the registered routes, checked under SpecFirst *)

\* Every registered path is one the default configuration produces: it ends
\* with "/{$}".
ExactMatchEntries ==
    \A k \in 1..Len(mux.entries) : EndsWith(mux.entries[k].pattern, SlashMarker)

\* The registered (method, path) pairs are pairwise different.
DistinctEntries ==
    \A k, l \in 1..Len(mux.entries) :
        k # l => mux.entries[k].pattern # mux.entries[l].pattern

\* The entries registered for exactly this method and this path.
EntriesFor(method, path) ==
    {k \in 1..Len(mux.entries) :
        mux.entries[k].pattern = method \o <<" ">> \o path \o ExactMatchWildcard}

\* The base handlers that have run, in order, among the effects of a request.
HandlersRun(effects) == SelectSeq(effects, LAMBDA e : e \in Handlers)

\* C12: under the default configuration with pairwise different registered
\* (method, path) pairs, a request for a registered pair runs the handler
\* composed for that route, once, and the handler of no other route; a request
\* for a pair that is not registered runs no registered handler.
C12_DispatchInvokesMatchingRouteOnce ==
    [][\A i \in Requests, req \in RequestArgs :
          (Dispatch(i, req) /\ ~mux.isNil /\ ExactMatchEntries /\ DistinctEntries) =>
              LET matching == EntriesFor(req.method, req.path)
                  effects == response'[i].effects
              IN IF matching = {}
                 THEN HandlersRun(effects) = <<>>
                 ELSE \E k \in matching :
                         LET composed == mux.entries[k].handler IN
                         /\ matching = {k}
                         /\ effects = Invoke(composed)
                         /\ HandlersRun(effects) = <<composed[Len(composed)]>>
      ]_vars

\* C12 witness: with GET /a/ and POST /a/ registered under the global
\* middleware A, the request GET /a/ ran A and then h1, and not h2.
C12_Witness ==
    /\ Len(mux.entries) = 2
    /\ mux.entries[1].pattern = MethodPost \o <<" ", "/", "a", "/", "{", "$", "}">>
    /\ mux.entries[2].pattern = MethodGet \o <<" ", "/", "a", "/", "{", "$", "}">>
    /\ response[FirstRequest].served
    /\ response[FirstRequest].method = MethodGet
    /\ response[FirstRequest].effects = <<"A", "h1">>

----------------------------------------------------------------------------
(* Properties of the registration calls, checked under SpecReg *)

\* The routes a builder registers on the sub-router it is given, in call order.
BuilderRoutes(builder) ==
    LET steps == SelectSeq(builder, LAMBDA step : step.op = "Route")
    IN [k \in 1..Len(steps) |->
           [Method |-> steps[k].method, Pattern |-> steps[k].pattern,
            HandlerFunc |-> steps[k].handler, Middlewares |-> <<>>]]

\* C13: when Group returns, the builder has run once, on a router that is not
\* the parent: the routes it registered are the routes of the new group, in
\* registration order, the parent's top-level routes are what they were, and
\* the new group is the one group added, at the end of the parent's group list.
C13_GroupRunsBuilderOnSubRouter ==
    [][\A prefix \in Prefixes, builder \in Builders :
          GroupCall(prefix, builder) =>
              /\ Len(routeGroups') = Len(routeGroups) + 1
              /\ SubSeq(routeGroups', 1, Len(routeGroups)) = routeGroups
              /\ routeGroups'[Len(routeGroups')].Prefix = prefix
              /\ routeGroups'[Len(routeGroups')].Routes = BuilderRoutes(builder)
              /\ routes' = routes
      ]_vars

\* C13 witness: a parent with one top-level route and one earlier group has got
\* a second group holding the two routes of its builder, in registration order.
C13_Witness ==
    /\ Len(routes) = 1
    /\ Len(routeGroups) = 2
    /\ Len(routeGroups[2].Routes) = 2
    /\ routeGroups[2].Routes[1].Method = MethodGet
    /\ routeGroups[2].Routes[1].HandlerFunc = "h1"
    /\ routeGroups[2].Routes[2].Method = MethodPost
    /\ routeGroups[2].Routes[2].HandlerFunc = "h2"

----------------------------------------------------------------------------
(* The middleware list of a new group, checked under SpecReg *)

\* C16: when Group returns, the middleware list of the new group is the
\* parent's global list as it was when Group was called, followed by the
\* middlewares the builder added with Use on the sub-router, in call order;
\* the list is a copy: Group leaves the parent's list as it was, and a later
\* Use on the parent changes the list of no group.
C16_GroupListIsSeededCopy ==
    [][/\ \A prefix \in Prefixes, builder \in Builders :
            GroupCall(prefix, builder) =>
                /\ routeGroups'[Len(routeGroups')].Middlewares
                       = middlewares \o BuilderUses(builder)
                /\ middlewares' = middlewares
       /\ \A mws \in MiddlewareArgs :
            UseCall(mws) =>
                /\ middlewares' = middlewares \o mws
                /\ Len(routeGroups') = Len(routeGroups)
                /\ \A g \in 1..Len(routeGroups) :
                       routeGroups'[g].Middlewares = routeGroups[g].Middlewares
      ]_vars

\* C16 witness: a group made under the global middleware A by a builder that
\* added B holds A, B, and still does after the parent has got A once more.
C16_Witness ==
    /\ Len(routeGroups) = 1
    /\ routeGroups[1].Middlewares = <<"A", "B">>
    /\ middlewares = <<"A", "A">>

----------------------------------------------------------------------------
(* Properties of route registration, checked under SpecRoutes *)

\* The method token each shortcut stands for (net/http's method constants).
MethodToken ==
    [GET |-> <<"G", "E", "T">>, POST |-> <<"P", "O", "S", "T">>,
     PUT |-> <<"P", "U", "T">>, DELETE |-> <<"D", "E", "L", "E", "T", "E">>,
     PATCH |-> <<"P", "A", "T", "C", "H">>,
     OPTIONS |-> <<"O", "P", "T", "I", "O", "N", "S">>,
     HEAD |-> <<"H", "E", "A", "D">>,
     CONNECT |-> <<"C", "O", "N", "N", "E", "C", "T">>,
     TRACE |-> <<"T", "R", "A", "C", "E">>]

\* The route list after one more route with no middleware, and all the rest
\* of the Router as it was.
OneRouteAppended(method, pattern, handler) ==
    /\ routes' = Append(routes, [Method |-> method, Pattern |-> pattern,
                                 HandlerFunc |-> handler, Middlewares |-> <<>>])
    /\ routeGroups' = routeGroups
    /\ middlewares' = middlewares
    /\ config' = config
    /\ hasSetupRoutes' = hasSetupRoutes

\* C14: RegisterRoute and each of GET, POST, PUT, DELETE, PATCH, OPTIONS, HEAD,
\* CONNECT, TRACE append one route with the corresponding method token, the
\* given pattern and handler and no middleware at the end of the route list,
\* return that route, and leave the groups, the global middlewares, the
\* configuration and the setup flag as they were.
C14_RegistrationAppendsOneRoute ==
    [][/\ \A a \in RouteArgs :
            RegisterRouteCall(a.method, a.pattern, a.handler) =>
                OneRouteAppended(a.method, a.pattern, a.handler)
       /\ \A name \in ShortcutNames, pattern \in ShortcutPatterns,
             handler \in ShortcutHandlers :
            ShortcutCall(name, pattern, handler) =>
                /\ OneRouteAppended(MethodToken[name], pattern, handler)
                /\ call'.out = Len(routes) + 1
                /\ routes'[call'.out].Method = MethodToken[name]
      ]_vars

\* C14 witness: PATCH, then TRACE, then RegisterRoute with GET have left three
\* routes in call order, none with a middleware.
C14_Witness ==
    /\ Len(routes) = 3
    /\ routes[1].Method = <<"P", "A", "T", "C", "H">>
    /\ routes[2].Method = <<"T", "R", "A", "C", "E">>
    /\ routes[3].Method = <<"G", "E", "T">>
    /\ \A k \in 1..3 : routes[k].Middlewares = <<>>
    /\ call.fn = "TRACE"
    /\ call.out = 2
    /\ routeGroups = <<>>
    /\ middlewares = <<>>

----------------------------------------------------------------------------
(* The multiplexer used by the first request, checked under SpecFirst *)

\* C15: a Router without a multiplexer does not fail in ServeHTTP: setup makes
\* a default one, registers every route on it, and the request is dispatched to
\* it; a multiplexer given to SetMux beforehand is the one setup registers the
\* routes on, and it is not replaced.
C15_MissingMuxIsDefaulted ==
    [][/\ \A i \in Requests :
            CallSetupRoutes(i) =>
                /\ ~mux'.isNil
                /\ mux.isNil => ~mux'.supplied
                /\ ~mux.isNil => mux'.supplied = mux.supplied
                /\ pc'[i] # "panicked" =>
                       Len(mux'.entries) = Len(mux.entries) + NumRegistrations
       /\ \A i \in Requests, req \in RequestArgs :
            Dispatch(i, req) =>
                /\ ~mux.isNil
                /\ pc'[i] = "done"
                /\ response'[i].served
      ]_vars

\* C15 witness: on a Router that never got a multiplexer, the first request
\* has been dispatched to the default one, which holds the registered route.
C15_Witness ==
    /\ ~mux.isNil
    /\ ~mux.supplied
    /\ Len(routes) = 1
    /\ Len(mux.entries) = 1
    /\ pc[FirstRequest] = "done"
    /\ response[FirstRequest].served
    /\ response[FirstRequest].effects = <<routes[1].HandlerFunc>>

----------------------------------------------------------------------------
(* What the multiplexer holds before and after setup, checked under SpecFirst *)

\* The number of routes in all the groups.
NumGroupRoutes == RoutesBefore(Len(routeGroups) + 1)

\* The base handler under the layers of a composed handler.
BaseHandler(composed) == composed[Len(composed)]

\* C17: in a sequential run the multiplexer holds no registration as long as
\* no ServeHTTP call has entered setup; when setup has completed it holds one
\* registration per top-level route and one per route of every group, the
\* top-level routes first, in list order, then the groups in list order, the
\* routes of each in list order.
C17_RegisteredAtFirstRequestInOrder ==
    /\ setupCount = 0 => mux.entries = <<>>
    /\ SetupJustDone =>
          /\ Len(mux.entries) = Len(routes) + NumGroupRoutes
          /\ \A k \in 1..Len(routes) :
                /\ mux.entries[k].pattern = GetPathForRoute(config, routes[k])
                /\ BaseHandler(mux.entries[k].handler) = routes[k].HandlerFunc
          /\ \A g \in 1..Len(routeGroups) : \A j \in 1..Len(routeGroups[g].Routes) :
                LET entry == mux.entries[Len(routes) + RoutesBefore(g) + j]
                    route == routeGroups[g].Routes[j]
                IN /\ entry.pattern
                          = GetPathForRouteWithRouteGroup(config, route, routeGroups[g])
                   /\ BaseHandler(entry.handler) = route.HandlerFunc

\* C17 witness: setup has completed on a Router with one top-level route and a
\* group of two routes; the multiplexer holds three registrations, the
\* top-level route's first.
C17_Witness ==
    /\ SetupJustDone
    /\ Len(routes) = 1
    /\ Len(routeGroups) = 1
    /\ Len(routeGroups[1].Routes) = 2
    /\ Len(mux.entries) = 3
    /\ mux.entries[1].pattern = GetPathForRoute(config, routes[1])

----------------------------------------------------------------------------
(* Requests and registration calls after setup, checked under SpecLater *)

\* Request i, which entered ServeHTTP when the flag was set, takes a step.
ReadyRequestSteps(i) ==
    /\ pc[i] # "idle"
    /\ ~request[i].early
    /\ pc'[i] # pc[i]

\* A route, a group or a middleware is added.
RegistrationChanges == registrationVars' # registrationVars

\* C18: a ServeHTTP call that starts when hasSetupRoutes is set goes from the
\* check straight to the dispatch: it takes no lock and runs no setup; and a
\* route, group or middleware added once the flag is set changes nothing in
\* the multiplexer, then or later.
C18_ReadyRequestsSkipSetup ==
    [][/\ \A i \in Requests :
            ReadyRequestSteps(i) =>
                /\ pc'[i] \in {"dispatch", "done"}
                /\ mutex' = mutex
                /\ setupCount' = setupCount
                /\ mux' = mux
       /\ (hasSetupRoutes /\ RegistrationChanges) => mux' = mux
      ]_vars

\* C18 witness: a group holding POST /a/a/ was added after the first request;
\* the later request asked for it and ran no handler, setup has run once and
\* the multiplexer holds the one registration of the first setup.
C18_Witness ==
    /\ hasSetupRoutes
    /\ setupCount = 1
    /\ Len(routes) = 1
    /\ Len(routeGroups) = 1
    /\ Len(routeGroups[1].Routes) = 2
    /\ Len(mux.entries) = 1
    /\ ~request[LaterRequest].early
    /\ response[LaterRequest].served
    /\ response[LaterRequest].method = MethodPost
    /\ response[LaterRequest].effects = NotFound

----------------------------------------------------------------------------
(* The mutex around setup under concurrent requests, checked under Spec *)

\* The positions between r.mutex.Lock() and r.mutex.Unlock().
SetupSection == {"setup", "setflag", "unlock"}

InSetupSection == {i \in Requests : pc[i] \in SetupSection}

\* C19 (as claimed): at most one request is between Lock and Unlock at any
\* time, and the mutex is held only while some request is there (stated for
\* pairwise different patterns and reads of the flag that are not stale).
C19_MutexHeldOnlyInSetup ==
    (DistinctPatterns /\ NoStaleRead) =>
        /\ Cardinality(InSetupSection) <= 1
        /\ mutex # 0 => InSetupSection # {}

----------------------------------------------------------------------------
(* Groups made inside a builder, checked under SpecFirst *)

\* C20: a Group call made inside a builder leaves its group on the sub-router
\* that Group throws away: the route of the inner group is in no group of the
\* parent and among no top-level routes, every Group call on the parent has
\* added one group at most, and the multiplexer never holds a registration of
\* the inner route.
C20_NestedGroupIsDropped ==
    /\ \A g \in 1..Len(routeGroups) : \A j \in 1..Len(routeGroups[g].Routes) :
           routeGroups[g].Routes[j].HandlerFunc # NestedHandler
    /\ \A k \in 1..Len(routes) : routes[k].HandlerFunc # NestedHandler
    /\ Len(routeGroups) <= nOps
    /\ \A k \in 1..Len(mux.entries) :
           BaseHandler(mux.entries[k].handler) # NestedHandler

\* C20 witness: setup has completed on a Router whose one group was made by
\* the builder that makes a group of its own; the multiplexer holds the
\* registration of the builder's direct route and nothing else.
C20_Witness ==
    /\ SetupJustDone
    /\ routes = <<>>
    /\ Len(routeGroups) = 1
    /\ Len(routeGroups[1].Routes) = 1
    /\ routeGroups[1].Routes[1].Method = MethodPost
    /\ routeGroups[1].Routes[1].HandlerFunc = "h1"
    /\ Len(mux.entries) = 1
    /\ mux.entries[1].pattern
           = MethodPost \o <<" ", "/", "a", "/", "a", "/", "{", "$", "}">>

----------------------------------------------------------------------------
(* Degenerate patterns, checked under SpecPath *)

\* A string that is empty or made of slashes only.
Degenerate(s) == \A k \in 1..Len(s) : s[k] = Slash

\* The path in the string built for a route: what follows the method and the
\* space.
PathPart == SubSeq(call.out, Len(call.method) + 2, Len(call.out))

\* A path without the exact-match marker, if it carries one.
WithoutMarker(p) ==
    IF EndsWith(p, ExactMatchWildcard)
    THEN SubSeq(p, 1, Len(p) - Len(ExactMatchWildcard))
    ELSE p

\* The last call built the string of a route whose pattern, and prefix if it
\* is in a group, are degenerate.
DegenerateRouteCall ==
    /\ call.fn \in {"GetPathForRoute", "GetPathForRouteWithRouteGroup"}
    /\ \A p \in RawInputs : Degenerate(p)

\* C21 (as claimed): for a route whose pattern (and prefix) is empty or made
\* of slashes only, path generation does not fail, the path is "/" whatever
\* the configuration, and under the default configuration the registered
\* string is "M /{$}".
C21_DegenerateIsSlashAnyConfig ==
    DegenerateRouteCall =>
        /\ PathPart # IndexOutOfRange
        /\ WithoutMarker(PathPart) = <<Slash>>
        /\ call.cfg = DefaultConfig =>
               call.out = call.method \o <<" ", Slash>> \o ExactMatchWildcard

\* C21 (amended): for such a route path generation does not fail under any
\* configuration; unless both flags are disabled the path is "/", and under
\* the default configuration the registered string is "M /{$}".
C21_DegenerateIsSlashWhenSanitizing ==
    DegenerateRouteCall =>
        /\ PathPart # IndexOutOfRange
        /\ ~BothDisabled(call.cfg) => WithoutMarker(PathPart) = <<Slash>>
        /\ call.cfg = DefaultConfig =>
               call.out = call.method \o <<" ", Slash>> \o ExactMatchWildcard

\* C21 witness: a group route with prefix "//" and pattern "/" was registered
\* under the default configuration as "GET /{$}".
C21_Witness ==
    /\ call.fn = "GetPathForRouteWithRouteGroup"
    /\ call.cfg = DefaultConfig
    /\ call.prefix = <<"/", "/">>
    /\ call.pattern = <<"/">>
    /\ call.out = MethodGet \o <<" ", "/", "{", "$", "}">>

----------------------------------------------------------------------------
(* Dispatch under concurrent requests, checked under Spec *)

\* No request has been dispatched yet: the routes and groups the Router holds
\* are those registered before the first dispatch.
BeforeFirstDispatch == \A j \in Requests : pc[j] # "done"

\* The multiplexer holds the registration of every route and group route
\* the Router holds.
RoutesRegistered ==
    LET regs == Registrations(config, routes, routeGroups, middlewares) IN
    \A k \in 1..Len(regs) :
        \E l \in 1..Len(mux.entries) : mux.entries[l].pattern = regs[k].pattern

\* The half of C22 that does not depend on what the read of r.mux returns:
\* while a request is at the dispatch a setup has completed, the multiplexer
\* exists and holds a registration for every route registered before the
\* first dispatch.
SetupCompletedAtDispatch ==
    \A i \in Requests :
        pc[i] = "dispatch" =>
            /\ ~mux.isNil
            /\ hasSetupRoutes
            /\ BeforeFirstDispatch => RoutesRegistered

\* C22 (as claimed): under every interleaving, a request that reaches
\* r.mux.ServeHTTP finds a multiplexer that is not nil and that holds a
\* registration for every route registered before the first dispatch: no
\* request has made the call on nil.
C22_DispatchAfterCompletedSetup ==
    /\ SetupCompletedAtDispatch
    /\ \A i \in Requests : pc[i] # "nilmux"

----------------------------------------------------------------------------
(* What SetupRoutes leaves of the registration state, checked under SpecFirst *)

\* The entry that this run of SetupRoutes has added for route j of group g.
NewGroupEntry(g, j) ==
    mux'.entries[Len(mux.entries) + Len(routes) + RoutesBefore(g) + j]

\* C23: SetupRoutes leaves the route list, the group list, the global
\* middleware list and the middleware list of every route and group with the
\* length and the elements they had; and the chain it composes for a route of
\* a group is made of the global list, the group's list and that route's own
\* list: the middlewares of the other routes of the group are not in it.
C23_SetupRoutesReadsOnly ==
    [][\A i \in Requests :
          CallSetupRoutes(i) =>
              /\ routes' = routes
              /\ routeGroups' = routeGroups
              /\ middlewares' = middlewares
              /\ pc'[i] = "setflag" =>
                    \A g \in 1..Len(routeGroups) :
                        \A j \in 1..Len(routeGroups[g].Routes) :
                            LET route == routeGroups[g].Routes[j] IN
                            NewGroupEntry(g, j).handler
                                = Nested(middlewares \o routeGroups[g].Middlewares
                                             \o route.Middlewares,
                                         <<route.HandlerFunc>>)
      ]_vars

\* C23 witness: setup has completed on a Router with a group of two routes,
\* the first with the middleware B of its own and the second with A; the
\* handler registered for the first runs B and not A, and the lists are as the
\* registration calls left them.
C23_Witness ==
    /\ SetupJustDone
    /\ middlewares = <<>>
    /\ Len(routeGroups) = 1
    /\ routeGroups[1].Middlewares = <<>>
    /\ Len(routeGroups[1].Routes) = 2
    /\ routeGroups[1].Routes[1].Middlewares = <<"B">>
    /\ routeGroups[1].Routes[2].Middlewares = <<"A">>
    /\ mux.entries[1].handler = <<"B", routeGroups[1].Routes[1].HandlerFunc>>
    /\ mux.entries[2].handler = <<"A", routeGroups[1].Routes[2].HandlerFunc>>

----------------------------------------------------------------------------
(* SanitizePath called directly, checked under SpecPath *)

\* C24 (as claimed): SanitizePath, called directly with any string, the empty
\* one included, under any of the four configurations, returns a string: it
\* does not fail.
C24_SanitizePathIsTotal ==
    call.fn = "SanitizePath" => call.out # IndexOutOfRange

====
